---- MODULE Spec2Model ----
(***************************************************************************)
(* Model of EnvValidator (src/src/validator.ts): the schema-driven pass    *)
(* that turns a mapping of raw environment strings into typed values or an *)
(* aggregated list of per-field error messages.                            *)
(*                                                                         *)
(* Raw strings are sequences of one-character strings, so that case        *)
(* folding, trimming, the e-mail pattern and the JSON / URL / number       *)
(* grammars are computed character by character.  Typed values are records *)
(* [t, n, b, s] with a tag t and one payload field per JavaScript type.    *)
(***************************************************************************)
EXTENDS Integers, Sequences, FiniteSets, TLC

VARIABLES
    schema,   \* the caller's schema: Object.entries order, <<[key, config]>>
    env,      \* the caller's raw source: present keys -> raw string
    errors,   \* validate's `errors` accumulator as the last call left it
    result,   \* validate's `result` accumulator as the last call left it
    log,      \* history: one [src, out] record per completed validate call
    invoked,  \* the validator invocations of the last validate call, in order
    files,    \* the file system: path -> [mode, content]
    clock,    \* the wall clock read by new Date()
    prev,     \* the file system as it was before the last file operation
    last,     \* the last file operation and what it delivered to its caller
    io        \* the fs calls the last file operation made, in order

validatorVars == <<schema, env, errors, result, log, invoked>>

fileVars == <<files, clock, prev, last, io>>

vars == <<schema, env, errors, result, log, invoked, files, clock, prev, last, io>>

(***************************************************************************)
(* Bounds of the model.                                                    *)
(***************************************************************************)
MaxFields == 3
MaxCalls == 3
MaxOps == 2

(***************************************************************************)
(* Characters.                                                             *)
(***************************************************************************)
Digits == <<"0", "1", "2", "3", "4", "5", "6", "7", "8", "9">>
UpperCase == <<"A", "B", "C", "D", "E", "F", "G", "H", "I", "J", "K", "L", "M", "N", "O", "P", "Q", "R", "S", "T", "U", "V", "W", "X", "Y", "Z">>
LowerCase == <<"a", "b", "c", "d", "e", "f", "g", "h", "i", "j", "k", "l", "m", "n", "o", "p", "q", "r", "s", "t", "u", "v", "w", "x", "y", "z">>

Range(seq) == {seq[i] : i \in 1..Len(seq)}

IndexIn(seq, c) == CHOOSE i \in 1..Len(seq) : seq[i] = c

IsDigit(c) == c \in Range(Digits)

IsAlpha(c) == c \in Range(UpperCase) \cup Range(LowerCase)

IsWhiteSpace(c) == c = " "

\* String.prototype.toLowerCase, one character
LowerChar(c) == IF c \in Range(UpperCase) THEN LowerCase[IndexIn(UpperCase, c)] ELSE c

ToLowerCaseIdentity(s) == s

\* String.prototype.toLowerCase
ToLowerCase(s) == [i \in 1..Len(s) |-> LowerChar(s[i])]

RECURSIVE TrimLeft(_)
TrimLeft(s) == IF s # <<>> /\ IsWhiteSpace(Head(s)) THEN TrimLeft(Tail(s)) ELSE s

RECURSIVE TrimRight(_)
TrimRight(s) ==
    IF s # <<>> /\ IsWhiteSpace(s[Len(s)]) THEN TrimRight(SubSeq(s, 1, Len(s) - 1)) ELSE s

Trim(s) == TrimRight(TrimLeft(s))

StartsWithAt(s, i, lit) ==
    /\ i + Len(lit) - 1 <= Len(s)
    /\ \A k \in 1..Len(lit) : s[i + k - 1] = lit[k]

(***************************************************************************)
(* Typed values.                                                           *)
(***************************************************************************)
Undefined == [t |-> "undefined", n |-> 0, b |-> FALSE, s |-> <<>>]
Num(x) == [t |-> "number", n |-> x, b |-> FALSE, s |-> <<>>]
Bool(x) == [t |-> "boolean", n |-> 0, b |-> x, s |-> <<>>]
Str(x) == [t |-> "string", n |-> 0, b |-> FALSE, s |-> x]
\* a parsed JSON structure, held as its text without insignificant white space
Json(x) == [t |-> "json", n |-> 0, b |-> FALSE, s |-> x]

Ok(v) == [ok |-> TRUE, value |-> v, message |-> ""]
Throw(m) == [ok |-> FALSE, value |-> Undefined, message |-> m]

(***************************************************************************)
(* Number(value): optional sign and decimal digits around white space; the *)
(* empty string is 0.  Raw strings of the model carry no fraction,         *)
(* exponent, radix prefix or Infinity literal.                             *)
(***************************************************************************)
RECURSIVE DigitsToNat(_)
DigitsToNat(d) ==
    IF d = <<>> THEN 0
    ELSE 10 * DigitsToNat(SubSeq(d, 1, Len(d) - 1)) + (IndexIn(Digits, d[Len(d)]) - 1)

NaN == [nan |-> TRUE, n |-> 0]

RECURSIVE LeadingDigits(_)
LeadingDigits(d) ==
    IF d # <<>> /\ IsDigit(Head(d)) THEN <<Head(d)>> \o LeadingDigits(Tail(d)) ELSE <<>>

\* parseInt-like: the longest numeric prefix
NumberOfPrefix(value) ==
    LET t == Trim(value)
        neg == t # <<>> /\ t[1] = "-"
        body == IF t # <<>> /\ t[1] \in {"+", "-"} THEN Tail(t) ELSE t
        d == LeadingDigits(body)
    IN  IF d = <<>> THEN NaN
        ELSE [nan |-> FALSE, n |-> IF neg THEN 0 - DigitsToNat(d) ELSE DigitsToNat(d)]

NumberOf(value) ==
    LET t == Trim(value)
        neg == t # <<>> /\ t[1] = "-"
        body == IF t # <<>> /\ t[1] \in {"+", "-"} THEN Tail(t) ELSE t
    IN  IF t = <<>> THEN [nan |-> FALSE, n |-> 0]
        ELSE IF body # <<>> /\ \A i \in 1..Len(body) : IsDigit(body[i])
             THEN [nan |-> FALSE, n |-> IF neg THEN 0 - DigitsToNat(body) ELSE DigitsToNat(body)]
             ELSE NaN

(***************************************************************************)
(* new URL(value) without a base: succeeds iff the trimmed string starts   *)
(* with a scheme and, for a special scheme, names a non-empty host free of *)
(* forbidden host characters.                                              *)
(***************************************************************************)
SpecialSchemes == {<<"h", "t", "t", "p">>, <<"h", "t", "t", "p", "s">>, <<"w", "s">>, <<"w", "s", "s">>, <<"f", "t", "p">>}

IsSchemeChar(c) == IsAlpha(c) \/ IsDigit(c) \/ c \in {"+", "-", "."}

ForbiddenHostChars == {" ", "/", ":", "@", "[", "]", "\"", "{", "}"}

RECURSIVE SkipSlashes(_)
SkipSlashes(s) == IF s # <<>> /\ Head(s) = "/" THEN SkipSlashes(Tail(s)) ELSE s

RECURSIVE UpTo(_, _)
UpTo(s, stops) ==
    IF s = <<>> \/ Head(s) \in stops THEN <<>> ELSE <<Head(s)>> \o UpTo(Tail(s), stops)

IsValidPort(p) == \A i \in 1..Len(p) : IsDigit(p[i])

IsValidHost(h) == h # <<>> /\ \A i \in 1..Len(h) : h[i] \notin ForbiddenHostChars

IsValidAuthority(a) ==
    LET h == UpTo(a, {":"})
    IN  /\ IsValidHost(h)
        /\ Len(h) < Len(a) => IsValidPort(SubSeq(a, Len(h) + 2, Len(a)))

IsValidURL(value) ==
    LET t == Trim(value)
        scheme == UpTo(t, {":"})
        rest == SubSeq(t, Len(scheme) + 2, Len(t))
    IN  /\ Len(scheme) < Len(t)
        /\ scheme # <<>>
        /\ IsAlpha(scheme[1])
        /\ \A i \in 1..Len(scheme) : IsSchemeChar(scheme[i])
        /\ IF ToLowerCase(scheme) \in SpecialSchemes
           THEN IsValidAuthority(UpTo(SkipSlashes(rest), {"/", "?", "#"}))
           ELSE StartsWithAt(rest, 1, <<"/", "/">>) =>
                    LET a == UpTo(SubSeq(rest, 3, Len(rest)), {"/", "?", "#"})
                    IN  a = <<>> \/ IsValidAuthority(a)

(***************************************************************************)
(* /^[^\s@]+@[^\s@]+\.[^\s@]+$/                                            *)
(***************************************************************************)
IsPlainRun(s, from, to) ==
    /\ from <= to
    /\ \A k \in from..to : ~IsWhiteSpace(s[k]) /\ s[k] # "@"

EmailRegexTest(value) ==
    \E i \in 1..Len(value) : \E j \in 1..Len(value) :
        /\ i < j
        /\ value[i] = "@"
        /\ value[j] = "."
        /\ IsPlainRun(value, 1, i - 1)
        /\ IsPlainRun(value, i + 1, j - 1)
        /\ IsPlainRun(value, j + 1, Len(value))

(***************************************************************************)
(* JSON.parse(value): objects, arrays, strings, integers and the three     *)
(* literals, with white space between tokens, scanned with a stack of the  *)
(* open containers.  The parsed structure is held as the text with the     *)
(* insignificant white space removed.                                      *)
(***************************************************************************)
RECURSIVE DigitsEnd(_, _)
DigitsEnd(s, i) == IF i <= Len(s) /\ IsDigit(s[i]) THEN DigitsEnd(s, i + 1) ELSE i

\* the position after the string token that opens at i, 0 if it never closes
JsonStringEnd(s, i) ==
    IF \E j \in (i + 1)..Len(s) : s[j] = "\""
    THEN 1 + CHOOSE j \in (i + 1)..Len(s) :
                 s[j] = "\"" /\ \A k \in (i + 1)..(j - 1) : s[k] # "\""
    ELSE 0

\* the position after the number token at i, 0 if there is none
JsonNumberEnd(s, i) ==
    LET d == IF s[i] = "-" THEN i + 1 ELSE i
        e == DigitsEnd(s, d)
    IN  IF e = d \/ (s[d] = "0" /\ e > d + 1) THEN 0 ELSE e

\* the position after the scalar token (string, literal or number) at i, 0 if none
JsonScalarEnd(s, i) ==
    IF s[i] = "\"" THEN JsonStringEnd(s, i)
    ELSE IF StartsWithAt(s, i, <<"t", "r", "u", "e">>) THEN i + 4
    ELSE IF StartsWithAt(s, i, <<"f", "a", "l", "s", "e">>) THEN i + 5
    ELSE IF StartsWithAt(s, i, <<"n", "u", "l", "l">>) THEN i + 4
    ELSE JsonNumberEnd(s, i)

JFail == [ok |-> FALSE, next |-> 0, stack |-> <<>>, expect |-> "fail", out |-> <<>>]
JGo(n, st, e, o) == [ok |-> TRUE, next |-> n, stack |-> st, expect |-> e, out |-> o]

\* what follows a complete value
AfterValue(st) == IF st = <<>> THEN "end" ELSE "commaOrClose"

Pop(st) == SubSeq(st, 1, Len(st) - 1)

\* one token at position i, which holds no white space
JsonStep(s, i, st, expect, out) ==
    LET c == s[i]
        top == IF st = <<>> THEN "" ELSE st[Len(st)]
        scalar == JsonScalarEnd(s, i)
        str == JsonStringEnd(s, i)
    IN  CASE expect \in {"value", "valueOrClose"} ->
                IF c = "]" THEN
                    IF expect = "valueOrClose"
                    THEN JGo(i + 1, Pop(st), AfterValue(Pop(st)), out \o <<c>>)
                    ELSE JFail
                ELSE IF c = "{" THEN JGo(i + 1, Append(st, c), "keyOrClose", out \o <<c>>)
                ELSE IF c = "[" THEN JGo(i + 1, Append(st, c), "valueOrClose", out \o <<c>>)
                ELSE IF scalar = 0 THEN JFail
                ELSE JGo(scalar, st, AfterValue(st), out \o SubSeq(s, i, scalar - 1))
          [] expect \in {"key", "keyOrClose"} ->
                IF c = "}" THEN
                    IF expect = "keyOrClose"
                    THEN JGo(i + 1, Pop(st), AfterValue(Pop(st)), out \o <<c>>)
                    ELSE JFail
                ELSE IF c # "\"" \/ str = 0 THEN JFail
                ELSE JGo(str, st, "colon", out \o SubSeq(s, i, str - 1))
          [] expect = "colon" ->
                IF c = ":" THEN JGo(i + 1, st, "value", out \o <<c>>) ELSE JFail
          [] expect = "commaOrClose" ->
                IF c = "," THEN
                    JGo(i + 1, st, IF top = "{" THEN "key" ELSE "value", out \o <<c>>)
                ELSE IF (c = "}" /\ top = "{") \/ (c = "]" /\ top = "[")
                THEN JGo(i + 1, Pop(st), AfterValue(Pop(st)), out \o <<c>>)
                ELSE JFail
          [] OTHER -> JFail

RECURSIVE JsonScan(_, _)
JsonScan(s, at) ==
    IF ~at.ok THEN at
    ELSE IF at.next > Len(s) THEN (IF at.expect = "end" THEN at ELSE JFail)
    ELSE IF IsWhiteSpace(s[at.next])
         THEN JsonScan(s, JGo(at.next + 1, at.stack, at.expect, at.out))
    ELSE JsonScan(s, JsonStep(s, at.next, at.stack, at.expect, at.out))

JsonParse(value) ==
    LET v == JsonScan(value, JGo(1, <<>>, "value", <<>>))
    IN  IF v.ok THEN Ok(Json(v.out)) ELSE Throw("Invalid JSON")

(***************************************************************************)
(* Field configurations (EnvVarConfig) and the caller's predicates.        *)
(***************************************************************************)
Types == {"string", "number", "boolean", "url", "email", "json"}

Config(t, r, d, v) == [type |-> t, required |-> r, default |-> d, validator |-> v]

\* the validator functions a schema of the model may carry; "none" is no validator
Validators == {"none", "portRange", "oneOf", "throws"}

Returned(b) == [threw |-> FALSE, ret |-> b, message |-> ""]
Threw(m) == [threw |-> TRUE, ret |-> FALSE, message |-> m]

Environments == {<<"d", "e", "v", "e", "l", "o", "p", "m", "e", "n", "t">>, <<"p", "r", "o", "d", "u", "c", "t", "i", "o", "n">>, <<"t", "e", "s", "t">>}

\* config.validator(value)
CallValidator(v, value) ==
    CASE v = "portRange" ->
            \* (value) => value >= 1000 && value <= 9999, with ToNumber of the operand
            LET x == CASE value.t = "number" -> [nan |-> FALSE, n |-> value.n]
                       [] value.t = "string" -> NumberOf(value.s)
                       [] value.t = "boolean" -> [nan |-> FALSE, n |-> IF value.b THEN 1 ELSE 0]
                       [] OTHER -> NaN
            IN  Returned(~x.nan /\ x.n >= 1000 /\ x.n <= 9999)
      [] v = "oneOf" ->
            \* (value) => ["development", "production", "test"].includes(value)
            Returned(value.t = "string" /\ value.s \in Environments)
      [] v = "throws" ->
            \* (value) => { throw new Error("boom") }
            Threw("boom")

(***************************************************************************)
(* EnvValidator.parseValue                                                 *)
(***************************************************************************)
IsMissingRequiredIgnoringDefault(config) == config.required

IsMissingRequiredInverted(config) == config.required /\ config.default # Undefined

\* config.required && config.default === undefined
IsMissingRequired(config) == config.required /\ config.default = Undefined

BooleanLiterals == {<<"t", "r", "u", "e">>, <<"f", "a", "l", "s", "e">>, <<"1">>, <<"0">>}

TrueLiterals == {<<"t", "r", "u", "e">>, <<"1">>}

ParseBoolean(value) ==
    IF ToLowerCase(value) \notin BooleanLiterals THEN Throw("Invalid boolean")
    ELSE Ok(Bool(ToLowerCase(value) \in TrueLiterals))

ParseNumber(value) ==
    LET num == NumberOf(value)
    IN  IF num.nan THEN Throw("Invalid number") ELSE Ok(Num(num.n))

\* env[key]: undefined when the key is absent
Lookup(src, key) ==
    IF key \in DOMAIN src THEN [present |-> TRUE, raw |-> src[key]]
    ELSE [present |-> FALSE, raw |-> <<>>]

parseValue(value, config) ==
    IF ~value.present THEN
        IF IsMissingRequired(config) THEN Throw("Required value is missing")
        ELSE Ok(config.default)
    ELSE CASE config.type = "number" -> ParseNumber(value.raw)
           [] config.type = "boolean" -> ParseBoolean(value.raw)
           [] config.type = "url" ->
                IF IsValidURL(value.raw) THEN Ok(Str(value.raw)) ELSE Throw("Invalid URL")
           [] config.type = "email" ->
                IF EmailRegexTest(value.raw) THEN Ok(Str(value.raw)) ELSE Throw("Invalid email")
           [] config.type = "json" -> JsonParse(value.raw)
           [] OTHER -> Ok(Str(value.raw))

(***************************************************************************)
(* EnvValidator.validate                                                   *)
(***************************************************************************)
EmptyMap == [k \in {} |-> Undefined]

PutDefined(map, key, value) ==
    IF value = Undefined THEN map
    ELSE [k \in DOMAIN map \cup {key} |-> IF k = key THEN value ELSE map[k]]

PutReplacing(map, key, value) == [k \in {key} |-> value]

\* result[key] = value
Put(map, key, value) ==
    [k \in DOMAIN map \cup {key} |-> IF k = key THEN value ELSE map[k]]

\* `${key}: ${(error as Error).message}`
FormatError(key, message) == key \o ": " \o message

ResolveFieldNormalising(key, config, src) ==
    LET parsed == parseValue(Lookup(src, key), config)
        verdict == CallValidator(config.validator, parsed.value)
    IN  IF ~parsed.ok THEN parsed
        ELSE IF config.validator = "none" THEN parsed
        ELSE IF verdict.threw \/ ~verdict.ret THEN Throw("Custom validation failed")
        ELSE parsed

ResolveFieldSkippingDefaults(key, config, src) ==
    LET parsed == parseValue(Lookup(src, key), config)
        verdict == CallValidator(config.validator, parsed.value)
    IN  IF ~parsed.ok THEN parsed
        ELSE IF config.validator = "none" \/ key \notin DOMAIN src THEN parsed
        ELSE IF verdict.threw THEN Throw(verdict.message)
        ELSE IF ~verdict.ret THEN Throw("Custom validation failed")
        ELSE parsed

\* the body of the try block for one schema entry
ResolveField(key, config, src) ==
    LET parsed == parseValue(Lookup(src, key), config)
        verdict == CallValidator(config.validator, parsed.value)
    IN  IF ~parsed.ok THEN parsed
        ELSE IF config.validator = "none" THEN parsed
        ELSE IF verdict.threw THEN Throw(verdict.message)
        ELSE IF ~verdict.ret THEN Throw("Custom validation failed")
        ELSE parsed

RECURSIVE ValidateLoopStopAtFirst(_, _, _, _, _)
ValidateLoopStopAtFirst(sch, src, i, errs, res) ==
    IF i > Len(sch) \/ Len(errs) > 0 THEN [errors |-> errs, result |-> res]
    ELSE LET step == ResolveField(sch[i].key, sch[i].config, src)
         IN  IF step.ok
             THEN ValidateLoopStopAtFirst(sch, src, i + 1, errs, Put(res, sch[i].key, step.value))
             ELSE ValidateLoopStopAtFirst(sch, src, i + 1,
                                          Append(errs, FormatError(sch[i].key, step.message)), res)

ValidatorCallsEager(key, config, src) ==
    IF config.validator = "none" THEN <<>>
    ELSE <<[key |-> key, value |-> parseValue(Lookup(src, key), config).value]>>

\* the invocations of config.validator in the try block for one schema entry:
\* one, on the parsed value, when parseValue returned and a validator is configured
ValidatorCalls(key, config, src) ==
    LET parsed == parseValue(Lookup(src, key), config)
    IN  IF parsed.ok /\ config.validator # "none"
        THEN <<[key |-> key, value |-> parsed.value]>>
        ELSE <<>>

\* the validator invocations of the whole loop, in order
RECURSIVE InvocationTrace(_, _, _)
InvocationTrace(sch, src, i) ==
    IF i > Len(sch) THEN <<>>
    ELSE ValidatorCalls(sch[i].key, sch[i].config, src) \o InvocationTrace(sch, src, i + 1)

SourceAfterConsuming(src, res) == [k \in DOMAIN src \ DOMAIN res |-> src[k]]

\* the source object after a pass that produced res: the loop only reads env[key]
SourceAfter(src, res) == src

\* the schema object after the pass: the loop only reads its entries
SchemaAfter(sch) == sch

\* the for loop over Object.entries(schema)
RECURSIVE ValidateLoop(_, _, _, _, _)
ValidateLoop(sch, src, i, errs, res) ==
    IF i > Len(sch) THEN [errors |-> errs, result |-> res]
    ELSE LET step == ResolveField(sch[i].key, sch[i].config, src)
         IN  IF step.ok
             THEN ValidateLoop(sch, src, i + 1, errs, Put(res, sch[i].key, step.value))
             ELSE ValidateLoop(sch, src, i + 1,
                               Append(errs, FormatError(sch[i].key, step.message)), res)

KeepErrors(previous) == previous

\* const errors: string[] = []
NewErrors(previous) == <<>>

\* const result: Record<string, any> = {}
NewResult(previous) == EmptyMap

\* the pass of one call, given what the accumulators held before it
Accumulate(sch, src, prevErrors, prevResult) ==
    ValidateLoop(sch, src, 1, NewErrors(prevErrors), NewResult(prevResult))

\* the post-pass decision: throw new ValidationError(errors) or return result
Finish(acc) ==
    IF Len(acc.errors) > 0
    THEN [kind |-> "thrown", errors |-> acc.errors, result |-> EmptyMap,
          message |-> "Environment validation failed"]
    ELSE [kind |-> "returned", errors |-> <<>>, result |-> acc.result, message |-> ""]

\* validate(schema, src) as a function of its two arguments
Run(sch, src) == Finish(Accumulate(sch, src, <<>>, EmptyMap))

(***************************************************************************)
(* Text of .env files: a file's content is one string, lines are separated *)
(* by the line feed character.                                             *)
(***************************************************************************)
LineFeed == "\n"

\* the least element of a non-empty set of indices, 0 for the empty set
Least(hits) == IF hits = {} THEN 0 ELSE CHOOSE k \in hits : \A j \in hits : k <= j

\* the index of the first occurrence of c in s, or 0
IndexOf(s, c) == Least({k \in 1..Len(s) : s[k] = c})

\* the pieces of content around its first line feed, which is at index at
RECURSIVE SplitAt(_, _)
SplitAt(content, at) ==
    IF at = 0 THEN <<content>>
    ELSE <<SubSeq(content, 1, at - 1)>>
         \o SplitAt(SubSeq(content, at + 1, Len(content)),
                    IndexOf(SubSeq(content, at + 1, Len(content)), LineFeed))

\* content.split("\n")
Split(content) == SplitAt(content, IndexOf(content, LineFeed))

\* lines.join("\n")
RECURSIVE Join(_)
Join(lines) ==
    IF lines = <<>> THEN <<>>
    ELSE IF Len(lines) = 1 THEN lines[1]
    ELSE lines[1] \o <<LineFeed>> \o Join(Tail(lines))

StartsWith(s, c) == Len(s) > 0 /\ s[1] = c

EndsWith(s, c) == Len(s) > 0 /\ s[Len(s)] = c

\* the property name a string of characters denotes
RECURSIVE NameOf(_)
NameOf(chars) == IF chars = <<>> THEN "" ELSE Head(chars) \o NameOf(Tail(chars))

\* the characters of the names the model interpolates into file text
CharsOf(name) ==
    CASE name = "PORT" -> <<"P", "O", "R", "T">>
      [] name = "API_URL" -> <<"A", "P", "I", "_", "U", "R", "L">>
      [] name = "EMAIL" -> <<"E", "M", "A", "I", "L">>
      [] name = "DEBUG" -> <<"D", "E", "B", "U", "G">>
      [] name = "CONFIG" -> <<"C", "O", "N", "F", "I", "G">>
      [] name = "NODE_ENV" -> <<"N", "O", "D", "E", "_", "E", "N", "V">>
      [] name = "string" -> <<"s", "t", "r", "i", "n", "g">>
      [] name = "number" -> <<"n", "u", "m", "b", "e", "r">>
      [] name = "boolean" -> <<"b", "o", "o", "l", "e", "a", "n">>
      [] name = "url" -> <<"u", "r", "l">>
      [] name = "email" -> <<"e", "m", "a", "i", "l">>
      [] name = "json" -> <<"j", "s", "o", "n">>
      [] name = ".env" -> <<".", "e", "n", "v">>
      [] name = ".env.example" -> <<".", "e", "n", "v", ".", "e", "x", "a", "m", "p", "l", "e">>
      [] name = ".env.development" -> <<".", "e", "n", "v", ".", "d", "e", "v", "e", "l", "o", "p", "m", "e", "n", "t">>
      [] name = ".env.staging" -> <<".", "e", "n", "v", ".", "s", "t", "a", "g", "i", "n", "g">>
      [] name = ".env.production" -> <<".", "e", "n", "v", ".", "p", "r", "o", "d", "u", "c", "t", "i", "o", "n">>

\* the groups of a line whose first "=" is at index at
MatchAt(trimmedLine, at) ==
    IF at < 2 THEN [matched |-> FALSE, key |-> <<>>, value |-> <<>>]
    ELSE [matched |-> TRUE,
          key |-> SubSeq(trimmedLine, 1, at - 1),
          value |-> SubSeq(trimmedLine, at + 1, Len(trimmedLine))]

\* trimmedLine.match(/^([^=]+)=(.*)$/): the first "=" has a character before it
MatchKeyValue(trimmedLine) == MatchAt(trimmedLine, IndexOf(trimmedLine, "="))

IsQuoted(value, q) == StartsWith(value, q) /\ EndsWith(value, q)

\* the quote removal: value.slice(1, -1) when the value starts and ends with
\* the same quote character; a value that is one quote character does both
StripQuotes(value) ==
    IF IsQuoted(value, "\"") \/ IsQuoted(value, "'")
    THEN SubSeq(value, 2, Len(value) - 1)
    ELSE value

\* the empty source {}
EmptyEnv == [k \in {} |-> <<>>]

\* env[key] = value
SetEntry(map, key, value) ==
    [k \in DOMAIN map \cup {key} |-> IF k = key THEN value ELSE map[k]]

\* the assignment a matched line makes, none when the line did not match
Assign(matches, map) ==
    IF ~matches.matched THEN map
    ELSE SetEntry(map, NameOf(Trim(matches.key)), StripQuotes(Trim(matches.value)))

\* the callback on a trimmed line: blank lines and comments are skipped
ParseTrimmed(trimmedLine, map) ==
    IF trimmedLine = <<>> \/ StartsWith(trimmedLine, "#") THEN map
    ELSE Assign(MatchKeyValue(trimmedLine), map)

\* the body of the forEach callback: the mapping after one line
ParseLine(line, map) == ParseTrimmed(Trim(line), map)

RECURSIVE ParseLines(_, _, _)
ParseLines(lines, i, map) ==
    IF i > Len(lines) THEN map
    ELSE ParseLines(lines, i + 1, ParseLine(lines[i], map))

\* the mapping parse builds from the content readFile delivered
ParseContent(content) == ParseLines(Split(content), 1, EmptyEnv)

(***************************************************************************)
(* The file system seen through fs/promises: every path has a mode.        *)
(*   "file"     a regular file that can be read and written                *)
(*   "absent"   no such file: readFile fails with ENOENT, writeFile creates *)
(*   "denied"   readFile and writeFile fail with EACCES                    *)
(*   "readonly" a regular file that can be read; writeFile fails with      *)
(*              EACCES when it opens the file, and writes nothing          *)
(***************************************************************************)
File(content) == [mode |-> "file", content |-> content]

NoSuchFile == [mode |-> "absent", content |-> <<>>]

Denied == [mode |-> "denied", content |-> <<>>]

NoFiles == [p \in {} |-> NoSuchFile]

Delivered(content) == [ok |-> TRUE, content |-> content, code |-> ""]

Failed(code) == [ok |-> FALSE, content |-> <<>>, code |-> code]

\* fs.readFile(filePath, "utf-8")
ReadFile(fs, path) ==
    CASE fs[path].mode = "file" -> Delivered(fs[path].content)
      [] fs[path].mode = "absent" -> Failed("ENOENT")
      [] fs[path].mode = "denied" -> Failed("EACCES")
      [] fs[path].mode = "readonly" -> Delivered(fs[path].content)

\* fs.writeFile(path, content): the file system afterwards, or the failure
WriteFile(fs, path, content) ==
    IF fs[path].mode \in {"denied", "readonly"}
    THEN [ok |-> FALSE, code |-> "EACCES", fs |-> fs]
    ELSE [ok |-> TRUE, code |-> "", fs |-> [fs EXCEPT ![path] = File(content)]]

\* one call of fs/promises
ReadCall(path) == [call |-> "readFile", path |-> path]

WriteCall(path) == [call |-> "writeFile", path |-> path]

Parsed(map) == [ok |-> TRUE, env |-> map, code |-> ""]

Rejected(code) == [ok |-> FALSE, env |-> EmptyEnv, code |-> code]

parseRethrowingAll(fs, path) ==
    IF ReadFile(fs, path).ok THEN Parsed(ParseContent(ReadFile(fs, path).content))
    ELSE Rejected(ReadFile(fs, path).code)

\* the try and catch blocks of parse on what readFile delivered
ParseRead(read) ==
    IF read.ok THEN Parsed(ParseContent(read.content))
    ELSE IF read.code = "ENOENT" THEN Parsed(EmptyEnv)
    ELSE Rejected(read.code)

\* EnvFileHandler.parse(filePath)
parse(fs, path) == ParseRead(ReadFile(fs, path))

(***************************************************************************)
(* String(value) and the example values.                                   *)
(***************************************************************************)
RECURSIVE NatToDigits(_)
NatToDigits(n) ==
    IF n < 10 THEN <<Digits[n + 1]>>
    ELSE NatToDigits(n \div 10) \o <<Digits[(n % 10) + 1]>>

\* String(value) of a default; the JSON defaults of the model are objects
StringOf(value) ==
    CASE value.t = "number" -> NatToDigits(value.n)
      [] value.t = "boolean" -> IF value.b THEN <<"t", "r", "u", "e">> ELSE <<"f", "a", "l", "s", "e">>
      [] value.t = "string" -> value.s
      [] value.t = "json" -> <<"[", "o", "b", "j", "e", "c", "t", " ", "O", "b", "j", "e", "c", "t", "]">>
      [] value.t = "undefined" -> <<"u", "n", "d", "e", "f", "i", "n", "e", "d">>

\* EnvFileHandler.getExampleValue(config)
getExampleValue(config) ==
    IF config.default # Undefined THEN StringOf(config.default)
    ELSE CASE config.type = "string" -> <<"e", "x", "a", "m", "p", "l", "e", "_", "v", "a", "l", "u", "e">>
           [] config.type = "number" -> <<"3", "0", "0", "0">>
           [] config.type = "boolean" -> <<"t", "r", "u", "e">>
           [] config.type = "url" -> <<"h", "t", "t", "p", "s", ":", "/", "/", "e", "x", "a", "m", "p", "l", "e", ".", "c", "o", "m">>
           [] config.type = "email" -> <<"u", "s", "e", "r", "@", "e", "x", "a", "m", "p", "l", "e", ".", "c", "o", "m">>
           [] config.type = "json" -> <<"{", "\"", "k", "e", "y", "\"", ":", " ", "\"", "v", "a", "l", "u", "e", "\"", "}">>
           [] OTHER -> <<>>

\* new Date().toISOString() at clock reading t
ToISOString(t) == <<"2", "0", "2", "4", "-", "0", "1", "-", "0", "1", "T", "0", "0", ":", "0", "0", ":", "0">> \o NatToDigits(t) \o <<".", "0", "0", "0", "Z">>

(***************************************************************************)
(* EnvFileHandler.generateExample                                          *)
(***************************************************************************)
\* the lines pushed for one schema entry (configurations carry no description)
ExampleLines(key, config) ==
    <<<<"#", " ", "T", "y", "p", "e", ":", " ">> \o CharsOf(config.type)>>
    \o (IF config.required THEN <<<<"#", " ", "R", "e", "q", "u", "i", "r", "e", "d", ":", " ", "t", "r", "u", "e">>>> ELSE <<>>)
    \o (IF config.default # Undefined
        THEN <<<<"#", " ", "D", "e", "f", "a", "u", "l", "t", ":", " ">> \o StringOf(config.default)>> ELSE <<>>)
    \o (IF config.validator # "none" THEN <<<<"#", " ", "N", "o", "t", "e", ":", " ", "H", "a", "s", " ", "c", "u", "s", "t", "o", "m", " ", "v", "a", "l", "i", "d", "a", "t", "i", "o", "n">>>> ELSE <<>>)
    \o <<CharsOf(key) \o <<"=">> \o getExampleValue(config), <<>>>>

RECURSIVE ExampleBody(_, _)
ExampleBody(sch, i) ==
    IF i > Len(sch) THEN <<>>
    ELSE ExampleLines(sch[i].key, sch[i].config) \o ExampleBody(sch, i + 1)

\* the content generateExample writes at clock reading t
ExampleContent(sch, t) ==
    Join(<<<<"#", " ", "G", "e", "n", "e", "r", "a", "t", "e", "d", " ", "E", "n", "v", "i", "r", "o", "n", "m", "e", "n", "t", " ", "V", "a", "r", "i", "a", "b", "l", "e", "s">>,
           <<"#", " ", "G", "e", "n", "e", "r", "a", "t", "e", "d", " ", "o", "n", " ">> \o ToISOString(t),
           <<>>>> \o ExampleBody(sch, 1))

\* generateExample(schema, outputPath)
generateExample(fs, sch, outputPath, t) == WriteFile(fs, outputPath, ExampleContent(sch, t))

(***************************************************************************)
(* EnvFileHandler.validate                                                 *)
(***************************************************************************)
\* !envContent[key]: the key is absent or its value is the empty string
IsFalsy(map, key) == key \notin DOMAIN map \/ map[key] = <<>>

\* the list the loop body pushes the key to, "none" when it continues
\* without pushing
Classify(key, config, envContent) ==
    IF IsFalsy(envContent, key)
    THEN IF config.required /\ config.default = Undefined THEN "missing" ELSE "none"
    ELSE IF Run(<<[key |-> key, config |-> config]>>,
                [k \in {key} |-> envContent[key]]).kind = "returned"
         THEN "valid"
         ELSE "invalid"

\* the list of every schema entry, in schema order
Classes(sch, envContent) ==
    [i \in 1..Len(sch) |-> Classify(sch[i].key, sch[i].config, envContent)]

\* the keys pushed to one list, in schema order
RECURSIVE Pushed(_, _, _, _)
Pushed(sch, classes, list, i) ==
    IF i > Len(sch) THEN <<>>
    ELSE (IF classes[i] = list THEN <<sch[i].key>> ELSE <<>>)
         \o Pushed(sch, classes, list, i + 1)

NoReport == [missing |-> <<>>, invalid |-> <<>>, valid |-> <<>>]

\* the three lists of a schema whose entries have the given classes
Lists(sch, classes) ==
    [missing |-> Pushed(sch, classes, "missing", 1),
     invalid |-> Pushed(sch, classes, "invalid", 1),
     valid |-> Pushed(sch, classes, "valid", 1)]

ReportOf(sch, envContent) == Lists(sch, Classes(sch, envContent))

\* validate on what parse delivered
ValidateParsed(sch, envContent) ==
    IF envContent.ok
    THEN [ok |-> TRUE, code |-> "", report |-> ReportOf(sch, envContent.env)]
    ELSE [ok |-> FALSE, code |-> envContent.code, report |-> NoReport]

\* EnvFileHandler.validate(schema, envPath)
validate(fs, sch, envPath) == ValidateParsed(sch, parse(fs, envPath))

(***************************************************************************)
(* EnvFileHandler.sync                                                     *)
(***************************************************************************)
\* targetContent[key] || sourceContent[key] || this.getExampleValue(config)
ChooseValue(key, config, targetContent, sourceContent) ==
    IF ~IsFalsy(targetContent, key) THEN targetContent[key]
    ELSE IF ~IsFalsy(sourceContent, key) THEN sourceContent[key]
    ELSE getExampleValue(config)

\* the KEY=VALUE lines pushed for one target
RECURSIVE SyncedLines(_, _, _, _)
SyncedLines(sch, targetContent, sourceContent, i) ==
    IF i > Len(sch) THEN <<>>
    ELSE <<CharsOf(sch[i].key) \o <<"=">>
             \o ChooseValue(sch[i].key, sch[i].config, targetContent, sourceContent)>>
         \o SyncedLines(sch, targetContent, sourceContent, i + 1)

\* updatedContent.join("\n") for one target
SyncedContent(sch, sourceEnv, targetContent, sourceContent, t) ==
    Join(<<<<"#", " ", "E", "n", "v", "i", "r", "o", "n", "m", "e", "n", "t", " ", "V", "a", "r", "i", "a", "b", "l", "e", "s">>,
           <<"#", " ", "S", "y", "n", "c", "e", "d", " ", "f", "r", "o", "m", " ">> \o CharsOf(sourceEnv) \o <<" ", "o", "n", " ">> \o ToISOString(t),
           <<>>>> \o SyncedLines(sch, targetContent, sourceContent, 1))

\* what the loop has come to once writeFile has been called for a target
SyncWritten(calls, targetEnv, written) ==
    [ok |-> written.ok, code |-> written.code, fs |-> written.fs,
     io |-> Append(calls, WriteCall(targetEnv))]

\* the body of the loop over targetEnvs on what parse delivered for the
\* target: the merged content is written
SyncRead(done, sch, sourceEnv, sourceContent, targetEnv, t, targetContent) ==
    IF ~targetContent.ok
    THEN [ok |-> FALSE, code |-> targetContent.code, fs |-> done.fs,
          io |-> Append(done.io, ReadCall(targetEnv))]
    ELSE SyncWritten(Append(done.io, ReadCall(targetEnv)), targetEnv,
             WriteFile(done.fs, targetEnv,
                 SyncedContent(sch, sourceEnv, targetContent.env, sourceContent, t)))

\* the body of the loop over targetEnvs: the target is read, then written
SyncTarget(done, sch, sourceEnv, sourceContent, targetEnv, t) ==
    SyncRead(done, sch, sourceEnv, sourceContent, targetEnv, t, parse(done.fs, targetEnv))

RECURSIVE SyncTargetsContinuing(_, _, _, _, _, _, _)
SyncTargetsContinuing(done, sch, sourceEnv, sourceContent, targetEnvs, i, t) ==
    IF i > Len(targetEnvs) THEN done
    ELSE SyncTargetsContinuing(
             SyncTarget([done EXCEPT !.ok = TRUE], sch, sourceEnv, sourceContent,
                 targetEnvs[i], t),
             sch, sourceEnv, sourceContent, targetEnvs, i + 1, t)

\* the loop over targetEnvs from index i on, done being what the targets
\* before i came to: a failure ends the loop
RECURSIVE SyncTargets(_, _, _, _, _, _, _)
SyncTargets(done, sch, sourceEnv, sourceContent, targetEnvs, i, t) ==
    IF i > Len(targetEnvs) \/ ~done.ok THEN done
    ELSE SyncTargets(SyncTarget(done, sch, sourceEnv, sourceContent, targetEnvs[i], t),
             sch, sourceEnv, sourceContent, targetEnvs, i + 1, t)

\* sync on what parse delivered for the source
SyncFrom(fs, sch, sourceEnv, targetEnvs, t, sourceContent) ==
    IF ~sourceContent.ok
    THEN [ok |-> FALSE, code |-> sourceContent.code, fs |-> fs,
          io |-> <<ReadCall(sourceEnv)>>]
    ELSE SyncTargets([ok |-> TRUE, code |-> "", fs |-> fs, io |-> <<ReadCall(sourceEnv)>>],
             sch, sourceEnv, sourceContent.env, targetEnvs, 1, t)

\* EnvFileHandler.sync(schema, sourceEnv, targetEnvs)
sync(fs, sch, sourceEnv, targetEnvs, t) ==
    SyncFrom(fs, sch, sourceEnv, targetEnvs, t, parse(fs, sourceEnv))

\* what an operation delivered to its caller
Outcome(op, path, done, env_, report) ==
    [op |-> op, path |-> path, kind |-> IF done.ok THEN "returned" ELSE "thrown",
     code |-> done.code, env |-> env_, report |-> report]

NoOperation ==
    [op |-> "none", path |-> "", kind |-> "none", code |-> "", env |-> EmptyEnv,
     report |-> NoReport]

(***************************************************************************)
(* Inputs: the raw strings, configurations and schemas the caller may      *)
(* hold.                                                                   *)
(***************************************************************************)
RawStrings ==
    { <<>>, <<"3", "0", "0", "0">>, <<"5", "0", "0">>, <<"a", "b", "c">>, <<" ", "4", "2", " ">>, <<"-", "7">>, <<"1", "2", "a", "b">>,
      <<"t", "r", "u", "e">>, <<"T", "R", "U", "E">>, <<"T", "r", "u", "e">>, <<"1">>, <<"0">>, <<"f", "a", "l", "s", "e">>, <<"F", "A", "L", "S", "E">>,
      <<"y", "e", "s">>, <<"n", "o">>, <<" ", "t", "r", "u", "e">>,
      <<"h", "t", "t", "p", "s", ":", "/", "/", "e", "x", "a", "m", "p", "l", "e", ".", "c", "o", "m">>, <<"h", "t", "t", "p", "s", ":", "/", "/", "a", "p", "i", ".", "e", "x", "a", "m", "p", "l", "e", ".", "c", "o", "m">>, <<"h", "t", "t", "p", ":", "/", "/">>,
      <<"e", "x", "a", "m", "p", "l", "e", ".", "c", "o", "m">>, <<"m", "a", "i", "l", "t", "o", ":", "a", "@", "b", ".", "c">>,
      <<"t", "e", "s", "t", "@", "e", "x", "a", "m", "p", "l", "e", ".", "c", "o", "m">>, <<"a", "@", "b">>, <<"a", " ", "b", "@", "c", ".", "d">>, <<"@", "b", ".", "c">>,
      <<"{", "\"", "k", "e", "y", "\"", ":", "\"", "v", "a", "l", "u", "e", "\"", "}">>, <<"{", "\"", "k", "e", "y", "\"", ":", " ", "\"", "v", "a", "l", "u", "e", "\"", "}">>, <<"{", "b", "a", "d", " ", "j", "s", "o", "n">>,
      <<"[", "1", ",", " ", "2", "]">>, <<"n", "u", "l", "l">>, <<"d", "e", "v", "e", "l", "o", "p", "m", "e", "n", "t">> }

\* the default values a configuration of the model may carry, per type
Defaults(t) ==
    CASE t = "number" -> {Undefined, Num(8080), Num(80)}
      [] t = "boolean" -> {Undefined, Bool(FALSE)}
      [] t = "string" -> {Undefined, Str(<<"d", "e", "v", "e", "l", "o", "p", "m", "e", "n", "t">>), Str(<<"i", "n", "f", "o">>)}
      [] t = "url" -> {Undefined, Str(<<"h", "t", "t", "p", "s", ":", "/", "/", "e", "x", "a", "m", "p", "l", "e", ".", "c", "o", "m">>)}
      [] t = "email" -> {Undefined, Str(<<"u", "s", "e", "r", "@", "e", "x", "a", "m", "p", "l", "e", ".", "c", "o", "m">>)}
      [] t = "json" -> {Undefined, Json(<<"{", "}">>)}

ValidatorsOf(t) ==
    CASE t = "number" -> {"none", "portRange", "throws"}
      [] t = "string" -> {"none", "oneOf", "throws"}
      [] OTHER -> {"none", "throws"}

Configs ==
    UNION { { Config(t, r, d, v) : r \in BOOLEAN, d \in Defaults(t), v \in ValidatorsOf(t) }
            : t \in Types }

Case(c, p, raw) == [config |-> c, present |-> p, raw |-> raw]

\* every configuration against every raw string, and against an absent key
AllCases ==
    { Case(c, TRUE, raw) : c \in Configs, raw \in RawStrings }
        \cup { Case(c, FALSE, <<>>) : c \in Configs }

\* the cases a schema of several fields combines
CoreCases ==
    { Case(Config("number", TRUE, Undefined, "none"), TRUE, <<"3", "0", "0", "0">>),
      Case(Config("number", TRUE, Undefined, "none"), FALSE, <<>>),
      Case(Config("url", TRUE, Undefined, "none"), TRUE, <<"a", "b", "c">>),
      Case(Config("number", FALSE, Num(80), "portRange"), FALSE, <<>>),
      Case(Config("string", FALSE, Undefined, "none"), FALSE, <<>>),
      Case(Config("string", FALSE, Undefined, "throws"), TRUE, <<"a", "b", "c">>),
      Case(Config("email", TRUE, Undefined, "none"), TRUE, <<"t", "e", "s", "t", "@", "e", "x", "a", "m", "p", "l", "e", ".", "c", "o", "m">>) }

KeyNames == <<"PORT", "API_URL", "EMAIL", "DEBUG", "CONFIG", "NODE_ENV">>

SchemaOf(cases) == [i \in 1..Len(cases) |-> [key |-> KeyNames[i], config |-> cases[i].config]]

EnvOf(cases) ==
    [k \in {KeyNames[i] : i \in {j \in 1..Len(cases) : cases[j].present}} |->
        cases[IndexIn(KeyNames, k)].raw]

Keys(sch) == {sch[i].key : i \in 1..Len(sch)}

\* the sources of the calls made between two calls on env
OtherSources == {EmptyEnv}

(***************************************************************************)
(* The state machine: a caller holding one schema and one source, calling  *)
(* validate on them and, in between, on other sources.                     *)
(***************************************************************************)
\* no file operation has run
FilesIdle ==
    /\ files = NoFiles
    /\ clock = 0
    /\ prev = NoFiles
    /\ last = NoOperation
    /\ io = <<>>

Init ==
    /\ \/ \E c \in AllCases : schema = SchemaOf(<<c>>) /\ env = EnvOf(<<c>>)
       \/ \E n \in 2..MaxFields : \E cases \in [1..n -> CoreCases] :
              schema = SchemaOf(cases) /\ env = EnvOf(cases)
    /\ errors = <<>>
    /\ result = EmptyMap
    /\ log = <<>>
    /\ invoked = <<>>
    /\ FilesIdle

\* the state after a pass over src that accumulated acc
Complete(src, acc) ==
    /\ errors' = acc.errors
    /\ result' = acc.result
    /\ log' = Append(log, [src |-> src, out |-> Finish(acc)])
    /\ env' = IF src = env THEN SourceAfter(env, acc.result) ELSE env

\* one call validate(schema, src); env is the caller's object when src is env
Call(src) ==
    /\ Len(log) < MaxCalls
    /\ Complete(src, Accumulate(schema, src, errors, result))
    /\ invoked' = InvocationTrace(schema, src, 1)
    /\ schema' = SchemaAfter(schema)
    /\ UNCHANGED fileVars

Validate == Call(env)

ValidateOther == \E src \in OtherSources : Call(src)

Next == Validate \/ ValidateOther

Spec == Init /\ [][Next]_vars

(***************************************************************************)
(* The inputs of the file operations: one source file, the target files    *)
(* and the example file; a file of the model has a preamble of lines that  *)
(* carry no entry, then at most one line per schema key.                   *)
(***************************************************************************)
SourceEnv == ".env"

TargetEnvs == <<".env.development", ".env.staging", ".env.production">>

ExamplePath == ".env.example"

Paths == {SourceEnv, ExamplePath} \cup Range(TargetEnvs)

\* the paths the callers of the model parse and validate
ReadPaths == {SourceEnv, ExamplePath, TargetEnvs[1]}

\* the text after "=" on an entry line
ValueTexts ==
    { <<>>, <<"3", "0", "0", "0">>, <<"a", "b", "c">>, <<" ", "8", "0", "8", "0", " ">>, <<"\"", "h", "e", "l", "l", "o", " ", "w", "o", "r", "l", "d", "\"">>, <<"'", "\"", "a", "\"", "'">>, <<"\"", " ", "\"">>,
      <<"\"">>, <<"\"", "a", "b", "c", "'">> }

NoLine == [present |-> FALSE, text |-> <<>>]

Line(text) == [present |-> TRUE, text |-> text]

\* the lines a key may have in the source file
Lines == {NoLine} \cup {Line(text) : text \in ValueTexts}

\* the lines a key may have in a target file
TargetLines == {NoLine, Line(<<>>), Line(<<"a", "b", "c">>), Line(<<"\"", "h", "e", "l", "l", "o", " ", "w", "o", "r", "l", "d", "\"">>)}

\* the lines of the files read beside an unreadable or missing one
PlainLines == {NoLine, Line(<<"3", "0", "0", "0">>)}

Preamble == <<<<"#", " ", "c", "o", "m", "m", "e", "n", "t">>, <<>>, <<" ", " ", " ">>, <<" ", " ", "#", " ", "i", "n", "d", "e", "n", "t", "e", "d", " ", "c", "o", "m", "m", "e", "n", "t">>, <<"n", "o", " ", "e", "q", "u", "a", "l", "s", " ", "s", "i", "g", "n">>, <<"=", "o", "r", "p", "h", "a", "n">>>>

\* the entry lines of a file, one per key that has a line
RECURSIVE EntryLines(_, _)
EntryLines(lines, i) ==
    IF i > Len(lines) THEN <<>>
    ELSE (IF lines[i].present THEN <<CharsOf(KeyNames[i]) \o <<"=">> \o lines[i].text>> ELSE <<>>)
         \o EntryLines(lines, i + 1)

ContentOf(lines) == Join(Preamble \o EntryLines(lines, 1))

FileCase(c, s, t) == [config |-> c, source |-> s, target |-> t]

\* the configurations the file operations are run on
FileConfigs ==
    { Config("number", TRUE, Undefined, "none"),
      Config("number", FALSE, Num(80), "portRange"),
      Config("number", TRUE, Num(8080), "none"),
      Config("string", TRUE, Undefined, "none"),
      Config("string", FALSE, Undefined, "none"),
      Config("string", FALSE, Str(<<"'", "s", "e", "l", "f", "'">>), "none"),
      Config("string", FALSE, Str(<<"d", "e", "v", "e", "l", "o", "p", "m", "e", "n", "t">>), "oneOf"),
      Config("boolean", TRUE, Undefined, "none"),
      Config("boolean", FALSE, Bool(FALSE), "none"),
      Config("url", TRUE, Undefined, "none"),
      Config("json", FALSE, Json(<<"{", "}">>), "none") }

\* the cases a schema of several fields combines
CoreFileCases ==
    { FileCase(Config("number", TRUE, Undefined, "none"), Line(<<"3", "0", "0", "0">>), Line(<<>>)),
      FileCase(Config("string", TRUE, Undefined, "none"), Line(<<"'", "\"", "a", "\"", "'">>), NoLine),
      FileCase(Config("boolean", FALSE, Bool(FALSE), "none"), NoLine, Line(<<"a", "b", "c">>)) }

Modes == {"file", "absent", "denied"}

\* a file of the given mode; only a regular file has content
FileOf(mode, lines) ==
    CASE mode = "file" -> File(ContentOf(lines))
      [] mode = "absent" -> NoSuchFile
      [] mode = "denied" -> Denied

\* the file system of a list of cases
FilesOf(cases, sourceMode, targetMode, otherMode) ==
    [p \in Paths |->
        CASE p = SourceEnv -> FileOf(sourceMode, [i \in 1..Len(cases) |-> cases[i].source])
          [] p = TargetEnvs[1] -> FileOf(targetMode, [i \in 1..Len(cases) |-> cases[i].target])
          [] OTHER -> FileOf(otherMode, <<>>)]

\* a file the process may not write (readonly) or not open at all (denied)
Protect(file, mode) ==
    IF mode = "denied" THEN Denied ELSE [file EXCEPT !.mode = "readonly"]

FileSchemaOf(cases) ==
    [i \in 1..Len(cases) |-> [key |-> KeyNames[i], config |-> cases[i].config]]

ValidatorIdle ==
    /\ env = EmptyEnv
    /\ errors = <<>>
    /\ result = EmptyMap
    /\ log = <<>>
    /\ invoked = <<>>

InitFile ==
    /\ \/ \E c \in FileConfigs : \E s \in Lines : \E t \in TargetLines :
            /\ schema = FileSchemaOf(<<FileCase(c, s, t)>>)
            /\ files = FilesOf(<<FileCase(c, s, t)>>, "file", "file", "absent")
       \/ \E c \in FileConfigs : \E l \in PlainLines : \E m \in Modes \ {"file"} :
            /\ schema = FileSchemaOf(<<FileCase(c, l, l)>>)
            /\ \/ files = FilesOf(<<FileCase(c, l, l)>>, m, "file", "absent")
               \/ files = FilesOf(<<FileCase(c, l, l)>>, "file", m, "absent")
       \/ \E n \in 2..MaxFields : \E cases \in [1..n -> CoreFileCases] :
            /\ schema = FileSchemaOf(cases)
            /\ \E m \in {"absent", "denied"} : files = FilesOf(cases, "file", "file", m)
       \/ \E c \in FileConfigs : \E l \in PlainLines : \E m \in {"denied", "readonly"} :
            \E i \in 1..Len(TargetEnvs) :
                /\ schema = FileSchemaOf(<<FileCase(c, l, l)>>)
                /\ files = [FilesOf(<<FileCase(c, l, l)>>, "file", "file", "absent")
                               EXCEPT ![TargetEnvs[i]] = Protect(@, m)]
    /\ clock = 0
    /\ prev = files
    /\ last = NoOperation
    /\ io = <<>>
    /\ ValidatorIdle

\* a reading operation delivers its outcome and leaves the files alone
Read(outcome) ==
    /\ last' = outcome
    /\ io' = <<ReadCall(outcome.path)>>
    /\ prev' = files
    /\ UNCHANGED <<files, clock>>
    /\ UNCHANGED validatorVars

\* a writing operation delivers its outcome and the files it came to
Write(op, path, done, calls) ==
    /\ files' = done.fs
    /\ io' = calls
    /\ last' = Outcome(op, path, done, EmptyEnv, NoReport)
    /\ prev' = files
    /\ clock' = clock + 1
    /\ UNCHANGED validatorVars

ParseOutcome(path, done) == Outcome("parse", path, done, done.env, NoReport)

ValidateOutcome(path, done) == Outcome("validate", path, done, EmptyEnv, done.report)

\* await EnvFileHandler.parse(path)
ParseFile(path) ==
    /\ path \in DOMAIN files
    /\ Read(ParseOutcome(path, parse(files, path)))

\* await EnvFileHandler.validate(schema, path)
ValidateFile(path) ==
    /\ path \in DOMAIN files
    /\ Read(ValidateOutcome(path, validate(files, schema, path)))

\* await EnvFileHandler.generateExample(schema)
GenerateExample ==
    /\ clock < MaxOps
    /\ Write("generateExample", ExamplePath,
             generateExample(files, schema, ExamplePath, clock), <<WriteCall(ExamplePath)>>)

\* sync settles with what it came to
Synced(done) == Write("sync", SourceEnv, done, done.io)

\* await EnvFileHandler.sync(schema, SourceEnv, TargetEnvs)
Sync ==
    /\ clock < MaxOps
    /\ Synced(sync(files, schema, SourceEnv, TargetEnvs, clock))

NextFile ==
    \/ \E path \in ReadPaths : ParseFile(path)
    \/ \E path \in ReadPaths : ValidateFile(path)
    \/ GenerateExample
    \/ Sync

SpecFile == InitFile /\ [][NextFile]_vars

(***************************************************************************)
(* Vocabulary of the properties.                                           *)
(***************************************************************************)
Called == log # <<>>

Last == log[Len(log)]

\* the source of the last call
Src == Last.src

Fields == 1..Len(schema)

KeyOf(i) == schema[i].key

ConfigOf(i) == schema[i].config

Absent(i) == KeyOf(i) \notin DOMAIN Src

Msg(key, reason) == key \o ": " \o reason

Reasons ==
    { "Required value is missing", "Invalid number", "Invalid boolean", "Invalid URL",
      "Invalid email", "Invalid JSON", "Custom validation failed", "boom" }

MessagesOf(key, errs) == {j \in 1..Len(errs) : \E r \in Reasons : errs[j] = Msg(key, r)}

\* the field alone: a one-entry schema against a source holding only its key
Alone(i) ==
    Accumulate(<<schema[i]>>, [k \in DOMAIN Src \cap {KeyOf(i)} |-> Src[k]], <<>>, EmptyMap)

FailsAlone(i) == Len(Alone(i).errors) > 0

IsFailing(i) == FailsAlone(i)

FailingFields == SelectSeq([i \in Fields |-> i], IsFailing)

(***************************************************************************)
(* C1: validate never stops at the first failing field: when at least one  *)
(* field fails, the thrown error list has exactly one entry per failing    *)
(* field and none for a passing field, in schema order, each formatted     *)
(* "<fieldName>: <reason>".                                                *)
(***************************************************************************)
C1_AllFailuresCollected ==
    Called /\ FailingFields # <<>> =>
        /\ Last.out.kind = "thrown"
        /\ Len(Last.out.errors) = Len(FailingFields)
        /\ \A j \in 1..Len(FailingFields) :
               \E r \in Reasons : Last.out.errors[j] = Msg(KeyOf(FailingFields[j]), r)

C1_Witness ==
    /\ Called
    /\ Len(schema) = 3
    /\ FailingFields = <<1, 3>>
    /\ Last.out.errors = <<"PORT: Required value is missing", "EMAIL: boom">>

(***************************************************************************)
(* C2: validate is all-or-nothing: it returns a mapping iff no field       *)
(* failed, the mapping then has exactly one entry per schema field, also   *)
(* for a field resolved to undefined; otherwise it throws and the caller   *)
(* receives no partial result.                                             *)
(***************************************************************************)
C2_AllOrNothing ==
    Called =>
        /\ Last.out.kind \in {"returned", "thrown"}
        /\ Last.out.kind = "returned" <=> FailingFields = <<>>
        /\ Last.out.kind = "returned" =>
               DOMAIN Last.out.result = Keys(schema) /\ Last.out.errors = <<>>
        /\ Last.out.kind = "thrown" =>
               DOMAIN Last.out.result = {} /\ Last.out.errors # <<>>

C2_Witness ==
    /\ Called
    /\ Len(schema) = 2
    /\ Last.out.kind = "returned"
    /\ Last.out.result["PORT"] = Num(3000)
    /\ Last.out.result["API_URL"] = Undefined

(***************************************************************************)
(* C3: a field with required = true and no default whose key is absent     *)
(* from the source makes validate fail with the entry                      *)
(* "<field>: Required value is missing".                                   *)
(***************************************************************************)
C3_MissingRequired ==
    Called =>
        \A i \in Fields :
            ConfigOf(i).required /\ ConfigOf(i).default = Undefined /\ Absent(i) =>
                /\ Last.out.kind = "thrown"
                /\ Msg(KeyOf(i), "Required value is missing") \in Range(Last.out.errors)

C3_Witness ==
    /\ Called
    /\ Len(schema) = 2
    /\ ConfigOf(2).required /\ ConfigOf(2).default = Undefined /\ Absent(2)
    /\ ~FailsAlone(1)
    /\ Last.out.errors = <<"API_URL: Required value is missing">>

\* the field's validator was reached (resolution succeeded) and how it answered
Reached(i) ==
    ConfigOf(i).validator # "none" /\ parseValue(Lookup(Src, KeyOf(i)), ConfigOf(i)).ok

Verdict(i) ==
    CallValidator(ConfigOf(i).validator, parseValue(Lookup(Src, KeyOf(i)), ConfigOf(i)).value)

(***************************************************************************)
(* C4 as stated: a validator that throws is reported exactly like one that *)
(* returns a falsy value, as "<field>: Custom validation failed".          *)
(***************************************************************************)
C4_ThrowReportedAsCustomFailure ==
    Called =>
        \A i \in Fields :
            Reached(i) /\ (Verdict(i).threw \/ ~Verdict(i).ret) =>
                Msg(KeyOf(i), "Custom validation failed") \in Range(errors)

(***************************************************************************)
(* C4 as amended: a validator that throws and one that returns a falsy     *)
(* value both fail the field with exactly one message and no result entry; *)
(* the falsy return is reported as "<field>: Custom validation failed",    *)
(* the throw as "<field>: <message of the thrown error>".                  *)
(***************************************************************************)
C4_ThrowReportedWithOwnMessage ==
    Called =>
        \A i \in Fields :
            Reached(i) /\ (Verdict(i).threw \/ ~Verdict(i).ret) =>
                /\ KeyOf(i) \notin DOMAIN result
                /\ Last.out.kind = "thrown"
                /\ Cardinality(MessagesOf(KeyOf(i), errors)) = 1
                /\ \A j \in MessagesOf(KeyOf(i), errors) :
                       errors[j] = Msg(KeyOf(i), IF Verdict(i).threw THEN Verdict(i).message
                                                 ELSE "Custom validation failed")

C4_Witness ==
    /\ Called
    /\ \E i \in Fields :
           /\ Reached(i)
           /\ Verdict(i).threw
           /\ Msg(KeyOf(i), "boom") \in Range(errors)
    /\ \E i \in Fields :
           /\ Reached(i)
           /\ ~Verdict(i).threw /\ ~Verdict(i).ret
           /\ Msg(KeyOf(i), "Custom validation failed") \in Range(errors)

(***************************************************************************)
(* C5: the validator is applied to every resolved value, also to a default *)
(* used because the key is absent: an absent key whose default the         *)
(* validator rejects fails with "Custom validation failed", exactly as a   *)
(* supplied value the validator rejects.                                   *)
(***************************************************************************)
C5_DefaultsAreValidated ==
    Called =>
        \A i \in Fields :
            LET c == ConfigOf(i)
                rejectsDefault ==
                    /\ Absent(i)
                    /\ c.default # Undefined
                    /\ c.validator \in {"portRange", "oneOf"}
                    /\ ~CallValidator(c.validator, c.default).ret
                rejectsSupplied ==
                    /\ ~Absent(i)
                    /\ c.validator \in {"portRange", "oneOf"}
                    /\ parseValue(Lookup(Src, KeyOf(i)), c).ok
                    /\ ~Verdict(i).ret
            IN  rejectsDefault \/ rejectsSupplied =>
                    /\ KeyOf(i) \notin DOMAIN result
                    /\ Msg(KeyOf(i), "Custom validation failed") \in Range(errors)

C5_Witness ==
    /\ Called
    /\ \E i \in Fields :
           /\ Absent(i)
           /\ ConfigOf(i).default = Num(80)
           /\ ConfigOf(i).validator = "portRange"
           /\ Msg(KeyOf(i), "Custom validation failed") \in Range(errors)

\* equal up to the case of the letters
SameIgnoringCase(a, b) ==
    /\ Len(a) = Len(b)
    /\ \A i \in 1..Len(a) :
           \/ a[i] = b[i]
           \/ \E k \in 1..26 : {a[i], b[i]} = {UpperCase[k], LowerCase[k]}

Spells(raw, literals) == \E l \in literals : SameIgnoringCase(raw, l)

(***************************************************************************)
(* C6: boolean coercion accepts exactly "true", "1", "false" and "0",      *)
(* compared case-insensitively: "true"/"1" yield true, "false"/"0" yield   *)
(* false, every other present raw string fails with "Invalid boolean".     *)
(***************************************************************************)
C6_BooleanLiterals ==
    Called =>
        \A i \in Fields :
            ConfigOf(i).type = "boolean" /\ ~Absent(i) /\ ConfigOf(i).validator = "none" =>
                LET raw == Src[KeyOf(i)]
                    key == KeyOf(i)
                IN  /\ Spells(raw, {<<"t", "r", "u", "e">>, <<"1">>}) =>
                           key \in DOMAIN result /\ result[key] = Bool(TRUE)
                    /\ Spells(raw, {<<"f", "a", "l", "s", "e">>, <<"0">>}) =>
                           key \in DOMAIN result /\ result[key] = Bool(FALSE)
                    /\ ~Spells(raw, {<<"t", "r", "u", "e">>, <<"1">>, <<"f", "a", "l", "s", "e">>, <<"0">>}) =>
                           /\ key \notin DOMAIN result
                           /\ Msg(key, "Invalid boolean") \in Range(errors)

C6_Witness ==
    /\ Called
    /\ \E i \in Fields :
           /\ ConfigOf(i).type = "boolean"
           /\ ~Absent(i)
           /\ Src[KeyOf(i)] = <<"T", "R", "U", "E">>
           /\ KeyOf(i) \in DOMAIN result
           /\ result[KeyOf(i)] = Bool(TRUE)

C6_WitnessRejected ==
    /\ Called
    /\ ConfigOf(1).type = "boolean"
    /\ ~Absent(1)
    /\ Src[KeyOf(1)] = <<"y", "e", "s">>
    /\ Last.out.errors = <<"PORT: Invalid boolean">>

\* the failure reason that belongs to a type tag; a string field has none
ReasonOf(t) ==
    CASE t = "number" -> "Invalid number"
      [] t = "boolean" -> "Invalid boolean"
      [] t = "url" -> "Invalid URL"
      [] t = "email" -> "Invalid email"
      [] t = "json" -> "Invalid JSON"
      [] OTHER -> "none"

(***************************************************************************)
(* C7: for a present raw value, a coercion failure carries only the reason *)
(* of the field's own type tag; a string field never fails and yields the  *)
(* raw string; url and email yield the original string unchanged; the      *)
(* number "3000" yields 3000, and "abc", like any string that is not a     *)
(* number as a whole, fails with "Invalid number".                         *)
(***************************************************************************)
C7_TypeSpecificReasons ==
    Called =>
        \A i \in Fields :
            ~Absent(i) /\ ConfigOf(i).validator = "none" =>
                LET raw == Src[KeyOf(i)]
                    key == KeyOf(i)
                    t == ConfigOf(i).type
                IN  /\ key \notin DOMAIN result =>
                           /\ t # "string"
                           /\ \A j \in MessagesOf(key, errors) :
                                  errors[j] = Msg(key, ReasonOf(t))
                           /\ Cardinality(MessagesOf(key, errors)) = 1
                    /\ t = "string" => key \in DOMAIN result /\ result[key] = Str(raw)
                    /\ t \in {"url", "email"} /\ key \in DOMAIN result => result[key] = Str(raw)
                    /\ t = "number" /\ raw = <<"3", "0", "0", "0">> =>
                           key \in DOMAIN result /\ result[key] = Num(3000)
                    /\ t = "number" /\ raw \in {<<"a", "b", "c">>, <<"1", "2", "a", "b">>} =>
                           Msg(key, "Invalid number") \in Range(errors)
                    /\ t = "url" /\ raw = <<"a", "b", "c">> => Msg(key, "Invalid URL") \in Range(errors)
                    /\ t = "email" /\ raw = <<"a", "b", "c">> => Msg(key, "Invalid email") \in Range(errors)
                    /\ t = "json" /\ raw = <<"{", "b", "a", "d", " ", "j", "s", "o", "n">> =>
                           Msg(key, "Invalid JSON") \in Range(errors)

C7_Witness ==
    /\ Called
    /\ Len(schema) = 3
    /\ DOMAIN result = {"PORT", "EMAIL"}
    /\ DOMAIN Src = {"PORT", "API_URL", "EMAIL"}
    /\ ConfigOf(1).type = "number" /\ result["PORT"] = Num(3000)
    /\ ConfigOf(2).type = "url" /\ Src["API_URL"] = <<"a", "b", "c">>
    /\ ConfigOf(3).type = "email" /\ result["EMAIL"] = Str(<<"t", "e", "s", "t", "@", "e", "x", "a", "m", "p", "l", "e", ".", "c", "o", "m">>)
    /\ Last.out.errors = <<"API_URL: Invalid URL">>

(***************************************************************************)
(* C8: a field with a default is satisfiable whatever its required flag:   *)
(* when its key is absent it never fails with "Required value is missing"  *)
(* and, with no validator configured, its result entry is the default.     *)
(***************************************************************************)
C8_DefaultSatisfies ==
    Called =>
        \A i \in Fields :
            ConfigOf(i).default # Undefined /\ Absent(i) =>
                /\ Msg(KeyOf(i), "Required value is missing") \notin Range(errors)
                /\ ConfigOf(i).validator = "none" =>
                       /\ KeyOf(i) \in DOMAIN result
                       /\ result[KeyOf(i)] = ConfigOf(i).default
                       /\ Last.out.kind = "returned" =>
                              Last.out.result[KeyOf(i)] = ConfigOf(i).default

C8_Witness ==
    /\ Called
    /\ ConfigOf(1).required
    /\ ConfigOf(1).default = Num(8080)
    /\ ConfigOf(1).validator = "none"
    /\ Absent(1)
    /\ Last.out.kind = "returned"
    /\ Last.out.result["PORT"] = Num(8080)

\* what a pass delivered for one key: its value, or its messages
FieldOutcome(acc, key) ==
    IF key \in DOMAIN acc.result
    THEN [ok |-> TRUE, value |-> acc.result[key], messages |-> {}]
    ELSE [ok |-> FALSE, value |-> Undefined,
          messages |-> {acc.errors[j] : j \in MessagesOf(key, acc.errors)}]

Reverse(seq) == [i \in 1..Len(seq) |-> seq[Len(seq) + 1 - i]]

Without(seq, j) == SubSeq(seq, 1, j - 1) \o SubSeq(seq, j + 1, Len(seq))

ThisPass == [errors |-> errors, result |-> result]

(***************************************************************************)
(* C9: independent fields: within one call the outcome of a field (typed   *)
(* value or failure reason) is that of the field validated alone against   *)
(* its own raw value; removing or reordering the other fields changes no   *)
(* field's outcome, and the call succeeds iff every field succeeds alone.  *)
(***************************************************************************)
C9_IndependentFields ==
    Called =>
        /\ \A i \in Fields :
               /\ FieldOutcome(ThisPass, KeyOf(i)) = FieldOutcome(Alone(i), KeyOf(i))
               /\ FieldOutcome(ThisPass, KeyOf(i)).ok
                      \/ Cardinality(FieldOutcome(ThisPass, KeyOf(i)).messages) = 1
               /\ FieldOutcome(Accumulate(Reverse(schema), Src, <<>>, EmptyMap), KeyOf(i))
                      = FieldOutcome(ThisPass, KeyOf(i))
               /\ \A j \in Fields \ {i} :
                      FieldOutcome(Accumulate(Without(schema, j), Src, <<>>, EmptyMap), KeyOf(i))
                          = FieldOutcome(ThisPass, KeyOf(i))
        /\ Last.out.kind = "returned" <=> \A i \in Fields : ~FailsAlone(i)
        /\ Run(Reverse(schema), Src).kind = Last.out.kind
        /\ Run(Reverse(schema), Src).result = Last.out.result
        /\ Range(Run(Reverse(schema), Src).errors) = Range(Last.out.errors)

C9_Witness ==
    /\ Called
    /\ Len(schema) = 3
    /\ FailingFields = <<1, 2>>
    /\ FieldOutcome(ThisPass, KeyOf(3)) = [ok |-> TRUE, value |-> Num(3000), messages |-> {}]
    /\ FieldOutcome(ThisPass, KeyOf(2)).messages = {"API_URL: Custom validation failed"}

(***************************************************************************)
(* C10: validate keeps no memory between calls: two calls with the same    *)
(* schema and the same source deliver equal results, or equal ordered      *)
(* error lists, whatever calls were made in between.                       *)
(***************************************************************************)
C10_NoMemoryBetweenCalls ==
    \A a \in 1..Len(log) : \A b \in 1..Len(log) :
        log[a].src = log[b].src => log[a].out = log[b].out

C10_Witness ==
    /\ Len(log) = 3
    /\ log[1].src = log[3].src
    /\ log[2].src # log[1].src
    /\ log[1].out.kind = "returned"
    /\ log[2].out.kind = "thrown"
    /\ log[3].out = log[1].out
    /\ DOMAIN log[3].out.result # {}

(***************************************************************************)
(* C11: validate leaves its inputs unchanged: across every validate call,  *)
(* returning or throwing, the source mapping and the schema keep exactly   *)
(* the keys and values they had before the call.                           *)
(***************************************************************************)
C11_InputsUnchanged == [][schema' = schema /\ env' = env]_vars

C11_Witness ==
    /\ Len(log) = 3
    /\ log[1].src = env /\ log[1].out.kind = "returned"
    /\ log[3].src = env
    /\ log[2].out.kind = "thrown"
    /\ DOMAIN env # {}
    /\ \E i \in Fields : ConfigOf(i).validator # "none"

\* the failure reasons of the resolution step (missing value, type coercion)
ResolutionReasons ==
    { "Required value is missing", "Invalid number", "Invalid boolean", "Invalid URL",
      "Invalid email", "Invalid JSON" }

InvocationsOf(key) == {j \in 1..Len(invoked) : invoked[j].key = key}

(***************************************************************************)
(* C18: within one validate call a field's validator is invoked at most    *)
(* once and only after the field's resolution succeeded: never for a field *)
(* that failed as missing-required or in type coercion; each failing field *)
(* contributes exactly one message, never both a resolution reason and     *)
(* "Custom validation failed".                                             *)
(***************************************************************************)
C18_ValidatorAfterResolution ==
    Called =>
        \A i \in Fields :
            LET key == KeyOf(i)
                resolutionFailed ==
                    \E r \in ResolutionReasons : Msg(key, r) \in Range(errors)
            IN  /\ Cardinality(InvocationsOf(key)) <= 1
                /\ ConfigOf(i).validator = "none" => InvocationsOf(key) = {}
                /\ resolutionFailed => InvocationsOf(key) = {}
                /\ ConfigOf(i).required /\ ConfigOf(i).default = Undefined /\ Absent(i) =>
                       InvocationsOf(key) = {}
                /\ key \notin DOMAIN result => Cardinality(MessagesOf(key, errors)) = 1
                /\ key \in DOMAIN result => MessagesOf(key, errors) = {}
                /\ Msg(key, "Custom validation failed") \in Range(errors) =>
                       ~resolutionFailed /\ Cardinality(InvocationsOf(key)) = 1

C18_Witness ==
    /\ Called
    /\ Len(schema) = 3
    /\ Len(errors) = 3
    /\ errors[1] = "PORT: Required value is missing"
    /\ errors[2] = "API_URL: Custom validation failed"
    /\ Len(invoked) = 2
    /\ invoked[1] = [key |-> "API_URL", value |-> Num(80)]
    /\ invoked[2].key = "EMAIL"

(***************************************************************************)
(* Vocabulary of the claims about the file operations.                     *)
(***************************************************************************)
Did(op) == last.op = op

Returned_(op) == last.op = op /\ last.kind = "returned"

\* the mode a path had when the last operation started
ModeBefore(path) == prev[path].mode

\* the mapping a path parsed to when the last operation started
EnvBefore(path) == parse(prev, path).env

\* the first path of source and targets, in reading order, that sync cannot
\* read, or "" when every one can be read or is missing
FirstDenied ==
    LET order == <<SourceEnv>> \o TargetEnvs
        denied == {i \in 1..Len(order) : ModeBefore(order[i]) = "denied"}
    IN  IF denied = {} THEN "" ELSE order[CHOOSE i \in denied : \A j \in denied : i <= j]

(***************************************************************************)
(* C13: parse maps a read failure to an outcome: a file that does not      *)
(* exist (ENOENT) yields the empty mapping and no error; any other read    *)
(* failure reaches the caller with the code it was raised with; validate   *)
(* and sync see the same rule through their calls of parse: a missing file *)
(* counts as an empty one, any other failure ends the operation (sync is   *)
(* taken where every file it writes is writable).                          *)
(***************************************************************************)
C13_ReadFailureOutcomes ==
    /\ Did("parse") =>
          CASE ModeBefore(last.path) = "absent" ->
                   last.kind = "returned" /\ last.env = EmptyEnv /\ last.code = ""
            [] ModeBefore(last.path) = "denied" ->
                   last.kind = "thrown" /\ last.code = ReadFile(prev, last.path).code
            [] OTHER -> last.kind = "returned"
    /\ Did("validate") =>
          CASE ModeBefore(last.path) = "absent" ->
                   last.kind = "returned" /\ last.report = ReportOf(schema, EmptyEnv)
            [] ModeBefore(last.path) = "denied" ->
                   last.kind = "thrown" /\ last.code = ReadFile(prev, last.path).code
            [] OTHER -> last.kind = "returned"
    /\ Did("sync") /\ (\A p \in Paths : ModeBefore(p) # "readonly") =>
          IF FirstDenied = ""
          THEN /\ last.kind = "returned"
               /\ \A i \in 1..Len(TargetEnvs) :
                      ModeBefore(TargetEnvs[i]) = "absent" /\ ModeBefore(SourceEnv) = "absent" =>
                          files[TargetEnvs[i]] =
                              File(SyncedContent(schema, SourceEnv, EmptyEnv, EmptyEnv, clock - 1))
          ELSE /\ last.kind = "thrown"
               /\ last.code = ReadFile(prev, FirstDenied).code
               /\ ModeBefore(SourceEnv) = "denied" => files = prev

C13_Witness ==
    /\ Returned_("sync")
    /\ ModeBefore(SourceEnv) = "absent"
    /\ ModeBefore(TargetEnvs[1]) = "file"
    /\ ModeBefore(TargetEnvs[2]) = "absent"
    /\ files[TargetEnvs[2]].mode = "file"

\* the lines of a text that are neither blank nor comments and have the
\* form KEY=VALUE, as indices into Split(content)
EntriesIn(content) ==
    LET lines == Split(content)
    IN  { i \in 1..Len(lines) :
            /\ Trim(lines[i]) # <<>>
            /\ ~StartsWith(Trim(lines[i]), "#")
            /\ MatchKeyValue(Trim(lines[i])).matched }

KeyAt(content, i) == NameOf(Trim(MatchKeyValue(Trim(Split(content)[i])).key))

\* the value of an entry line as written, apart from trimming
WrittenAt(content, i) == Trim(MatchKeyValue(Trim(Split(content)[i])).value)

\* a value enclosed in a pair of the same quote character
EnclosedInPair(value) ==
    Len(value) >= 2 /\ (IsQuoted(value, "\"") \/ IsQuoted(value, "'"))

(***************************************************************************)
(* C14: parse skips blank lines and lines whose first non-space character  *)
(* is "#"; for each KEY=VALUE line it removes the quotes of a value only   *)
(* when the value is enclosed in a matching pair of surrounding quotes,    *)
(* and returns any other value as written apart from trimming.  (A file of *)
(* the model has at most one line per key.)                                *)
(***************************************************************************)
C14_QuotesRemovedOnlyFromPairs ==
    Returned_("parse") /\ ModeBefore(last.path) = "file" =>
        LET content == prev[last.path].content
        IN  /\ DOMAIN last.env = {KeyAt(content, i) : i \in EntriesIn(content)}
            /\ \A i \in EntriesIn(content) :
                   last.env[KeyAt(content, i)] =
                       IF EnclosedInPair(WrittenAt(content, i))
                       THEN SubSeq(WrittenAt(content, i), 2, Len(WrittenAt(content, i)) - 1)
                       ELSE WrittenAt(content, i)

\* validate({ [key]: config }, source restricted to key) returns
ResolvesCleanly(i, source) ==
    Run(<<schema[i]>>, [k \in {schema[i].key} \cap DOMAIN source |-> source[k]]).kind = "returned"

Listed(list, i) == schema[i].key \in Range(list)

(***************************************************************************)
(* C12: EnvFileHandler.validate puts each schema field in exactly one of   *)
(* its three lists: missing iff the field is required, has no default and  *)
(* is absent from the file; invalid iff it is present in the file and      *)
(* fails single-field resolution; valid iff it resolves cleanly.           *)
(***************************************************************************)
C12_ClassifiedInExactlyOneList ==
    Returned_("validate") =>
        \A i \in 1..Len(schema) :
            LET envContent == EnvBefore(last.path)
                config == schema[i].config
                absent == schema[i].key \notin DOMAIN envContent
                missing == Listed(last.report.missing, i)
                invalid == Listed(last.report.invalid, i)
                valid == Listed(last.report.valid, i)
            IN  /\ Cardinality({l \in {"missing", "invalid", "valid"} :
                       Listed(last.report[l], i)}) = 1
                /\ missing <=> (config.required /\ config.default = Undefined /\ absent)
                /\ invalid <=> (~absent /\ ~ResolvesCleanly(i, envContent))
                /\ valid <=> ResolvesCleanly(i, envContent)

\* the text after "KEY=" on the line sync wrote for field i of a target
SyncedValue(fs, target, i) ==
    LET line == Split(fs[target].content)[3 + i]
    IN  SubSeq(line, Len(CharsOf(schema[i].key)) + 2, Len(line))

(***************************************************************************)
(* C15: sync writes, for each target and each schema field, the target     *)
(* file's value if the target has one, else the source file's value if the *)
(* source has one, else the field's example/default value; an existing     *)
(* target value is never replaced by a source or example value.            *)
(***************************************************************************)
C15_TargetThenSourceThenExample ==
    Returned_("sync") =>
        \A t \in 1..Len(TargetEnvs) : \A i \in 1..Len(schema) :
            LET key == schema[i].key
                targetContent == EnvBefore(TargetEnvs[t])
                sourceContent == EnvBefore(SourceEnv)
            IN  SyncedValue(files, TargetEnvs[t], i) =
                    IF key \in DOMAIN targetContent THEN targetContent[key]
                    ELSE IF key \in DOMAIN sourceContent THEN sourceContent[key]
                    ELSE getExampleValue(schema[i].config)

(***************************************************************************)
(* C16: after sync completes, all required variables are present in every  *)
(* target: EnvFileHandler.validate(schema, target) reports an empty        *)
(* missing list for each target, whatever the source and the targets held. *)
(***************************************************************************)
C16_NothingMissingAfterSync ==
    Returned_("sync") =>
        \A t \in 1..Len(TargetEnvs) :
            LET report == validate(files, schema, TargetEnvs[t])
            IN  report.ok /\ report.report.missing = <<>>

(***************************************************************************)
(* C17: round trip: after generateExample, parse of the produced file      *)
(* yields, for every field that has a default, a raw value equal to        *)
(* String(default).                                                        *)
(***************************************************************************)
C17_ExampleRoundTrip ==
    Returned_("generateExample") =>
        LET parsed == parse(files, ExamplePath)
        IN  /\ parsed.ok
            /\ \A i \in 1..Len(schema) :
                   schema[i].config.default # Undefined =>
                       /\ schema[i].key \in DOMAIN parsed.env
                       /\ parsed.env[schema[i].key] = StringOf(schema[i].config.default)

(***************************************************************************)
(* C19: the file report agrees with the core: when                         *)
(* EnvFileHandler.validate(schema, path) returns empty missing and empty   *)
(* invalid lists, EnvValidator.validate(schema, parse(path)) returns       *)
(* without throwing, also for keys present with an empty value and for     *)
(* absent keys whose default is subject to a predicate.                    *)
(***************************************************************************)
C19_ReportAgreesWithCore ==
    /\ Returned_("validate")
    /\ last.report.missing = <<>>
    /\ last.report.invalid = <<>>
    => Run(schema, EnvBefore(last.path)).kind = "returned"

\* the lines of a synced target after its three header lines
EntriesOf(fs, target) ==
    LET lines == Split(fs[target].content)
    IN  SubSeq(lines, 4, Len(lines))

(***************************************************************************)
(* C20: sync is idempotent on content: a second sync with the same schema, *)
(* source and targets, run right after a first one, leaves every target's  *)
(* KEY=VALUE lines, and the mapping parse gives for the target, as they    *)
(* were after the first run; only the timestamp header may differ.         *)
(***************************************************************************)
C20_SyncIdempotent ==
    [][(Returned_("sync") /\ Sync /\ last'.kind = "returned") =>
           \A t \in 1..Len(TargetEnvs) :
               /\ EntriesOf(files', TargetEnvs[t]) = EntriesOf(files, TargetEnvs[t])
               /\ parse(files', TargetEnvs[t]).env = parse(files, TargetEnvs[t]).env]_vars

\* the positions of the fs calls the last operation made on a path
CallsOn(path) == {k \in 1..Len(io) : io[k].path = path}

\* the index of the first target that sync cannot read or cannot write, 0
\* when there is none
FirstFailing ==
    Least({i \in 1..Len(TargetEnvs) : ModeBefore(TargetEnvs[i]) \in {"denied", "readonly"}})

\* the content sync writes to a target from what the files held before it
MergedBefore(target) ==
    SyncedContent(schema, SourceEnv, EnvBefore(target), EnvBefore(SourceEnv), clock - 1)

(***************************************************************************)
(* C21: sync reads the source exactly once, before any target, and then    *)
(* takes the targets one after another in list order, reading each before  *)
(* writing it; when reading or writing target i fails with an error other  *)
(* than ENOENT, the error reaches the caller, every target before i has    *)
(* been fully written, and no target after i has been read or written.     *)
(***************************************************************************)
C21_TargetsInListOrder ==
    Did("sync") =>
        LET n == Len(TargetEnvs)
            f == FirstFailing
            completed == IF f = 0 THEN n ELSE f - 1
        IN  /\ Len(io) >= 1
            /\ io[1] = ReadCall(SourceEnv)
            /\ CallsOn(SourceEnv) = {1}
            /\ ModeBefore(SourceEnv) = "denied" =>
                   /\ Len(io) = 1
                   /\ files = prev
                   /\ last.kind = "thrown"
                   /\ last.code = ReadFile(prev, SourceEnv).code
            /\ ModeBefore(SourceEnv) # "denied" =>
                   /\ \A j \in 1..completed :
                          /\ CallsOn(TargetEnvs[j]) = {2 * j, 2 * j + 1}
                          /\ io[2 * j] = ReadCall(TargetEnvs[j])
                          /\ io[2 * j + 1] = WriteCall(TargetEnvs[j])
                          /\ files[TargetEnvs[j]] = File(MergedBefore(TargetEnvs[j]))
                   /\ f = 0 => last.kind = "returned" /\ Len(io) = 2 * n + 1
                   /\ f # 0 =>
                          /\ last.kind = "thrown"
                          /\ last.code = "EACCES"
                          /\ io[2 * f] = ReadCall(TargetEnvs[f])
                          /\ files[TargetEnvs[f]] = prev[TargetEnvs[f]]
                          /\ ModeBefore(TargetEnvs[f]) = "denied" =>
                                 /\ Len(io) = 2 * f
                                 /\ last.code = ReadFile(prev, TargetEnvs[f]).code
                          /\ ModeBefore(TargetEnvs[f]) = "readonly" =>
                                 /\ Len(io) = 2 * f + 1
                                 /\ io[2 * f + 1] = WriteCall(TargetEnvs[f])
                                 /\ last.code =
                                        WriteFile(prev, TargetEnvs[f], <<>>).code
                          /\ \A j \in (f + 1)..n :
                                 /\ CallsOn(TargetEnvs[j]) = {}
                                 /\ files[TargetEnvs[j]] = prev[TargetEnvs[j]]

C21_Witness ==
    /\ Did("sync")
    /\ last.kind = "thrown"
    /\ FirstFailing = 2
    /\ ModeBefore(TargetEnvs[2]) = "readonly"
    /\ Len(io) = 5
    /\ files[TargetEnvs[1]] # prev[TargetEnvs[1]]
    /\ files[TargetEnvs[3]] = prev[TargetEnvs[3]]
    /\ CallsOn(TargetEnvs[3]) = {}

====
